---- MODULE Spec2Model ----
(***************************************************************************)
(* Model of labs/lab1.py: the Simulator rollouts (simulate and             *)
(* simulate_with_trajectory), the Euler and Euler-Maruyama steps, the      *)
(* vector fields (BrownianMotion, OUProcess, LangevinSDE) and the          *)
(* distributions (Gaussian, GaussianMixture).                              *)
(*                                                                         *)
(* Numbers are exact rationals <<n, d>> in lowest terms with d > 0.        *)
(* A tensor of shape (batch_size, dim) is a sequence of rows, each a       *)
(* sequence of rationals.  Tensors live in a heap and are named by their   *)
(* index in it, so that aliasing and in-place writes can be told apart     *)
(* from fresh results.                                                     *)
(***************************************************************************)
EXTENDS Integers, Sequences, FiniteSets, TLC

VARIABLES
    sim,        \* the simulator object: its class and the vector field it holds
    ts,         \* the timestep schedule handed to the rollouts
    arg_x,      \* the value of the caller's initial state before any call
    arg_ts,     \* the value of the schedule before any call
    heap,       \* the tensors that exist, by reference
    x_init,     \* reference of the caller's initial state
    gen,        \* the process-wide random generator: its seed and position
    seeded,     \* random_2D has reset the generator since the last rollout
    target,     \* the mixture random_2D built last
    pc,         \* which rollout is running ("idle" when none)
    x,          \* the rollout's local x: a reference
    t_idx,      \* the rollout's loop index
    xs,         \* simulate_with_trajectory's list of recorded references
    calls,      \* the step calls the running (or last) rollout has made
    simOut,     \* how the last simulate call ended
    trajOut,    \* how the last simulate_with_trajectory call ended
    probe,      \* one step of both simulators on the same arguments
    coef,       \* coefficients of a Langevin SDE and of an OU process
    dist,       \* lifecycle of a Gaussian / GaussianMixture object
    runs,       \* two runs of the same calls, each on its own generator
    plot,       \* a call of one of the 1-d plotting functions
    nth         \* a call of every_nth_index

vars == <<sim, ts, arg_x, arg_ts, heap, x_init, gen, seeded, target, pc, x,
          t_idx, xs, calls, simOut, trajOut, probe, coef, dist, runs, plot, nth>>

rolloutVars == <<sim, ts, arg_x, arg_ts, heap, x_init, gen, seeded, target, pc,
                 x, t_idx, xs, calls, simOut, trajOut>>

---------------------------------------------------------------------------
(* Bounds of the model.                                                    *)

\* most sample / log_density calls made on one distribution object
MaxDistCalls == 2
\* longest timestep schedule
MaxLen == 3
\* math.sqrt is kept to this many fractional units
SqrtPrecision == 4
\* most calls made in a run that follows random_2D
MaxRunCalls == 3
\* largest num_timesteps every_nth_index is called with
MaxTimesteps == 9
\* largest n every_nth_index is called with
MaxEvery == 6

\* the times a schedule is built from (any order, repeats allowed)
Times == {0, 1, 3, 8}
\* the numbers of mixture components random_2D is asked for
ModeCounts == {1, 2}
\* the seeds random_2D is called with
Seeds == {0, 3}

---------------------------------------------------------------------------
(* Exact rational arithmetic.                                              *)

Abs(n) == IF n < 0 THEN -n ELSE n

RECURSIVE Gcd(_, _)
Gcd(a, b) == IF b = 0 THEN a ELSE Gcd(b, a % b)

Rat(n, d) ==
    LET s == IF d < 0 THEN -1 ELSE 1
        g == Gcd(Abs(n), Abs(d))
    IN  <<(s * n) \div g, (s * d) \div g>>

Num(n) == <<n, 1>>
RAdd(a, b) == Rat(a[1] * b[2] + b[1] * a[2], a[2] * b[2])
RNeg(a) == <<-a[1], a[2]>>
RSub(a, b) == RAdd(a, RNeg(b))
RMul(a, b) == Rat(a[1] * b[1], a[2] * b[2])
RDiv(a, b) == Rat(a[1] * b[2], a[2] * b[1])
RLeq(a, b) == a[1] * b[2] <= b[1] * a[2]
RLess(a, b) == a[1] * b[2] < b[1] * a[2]

---------------------------------------------------------------------------
(* Tensors of shape (batch_size, dim).                                     *)

Numel(a) == IF Len(a) = 0 THEN 0 ELSE Len(a) * Len(a[1])
ZerosLike(a) == [i \in 1..Len(a) |-> [j \in 1..Len(a[i]) |-> Num(0)]]
OnesLike(a) == [i \in 1..Len(a) |-> [j \in 1..Len(a[i]) |-> Num(1)]]
TAdd(a, b) == [i \in 1..Len(a) |-> [j \in 1..Len(a[i]) |-> RAdd(a[i][j], b[i][j])]]
TMul(a, b) == [i \in 1..Len(a) |-> [j \in 1..Len(a[i]) |-> RMul(a[i][j], b[i][j])]]
TScale(c, a) == [i \in 1..Len(a) |-> [j \in 1..Len(a[i]) |-> RMul(c, a[i][j])]]
Last(s) == s[Len(s)]

\* torch's broadcasting of two tensors of shape (batch_size, dim): their
\* shapes sa and sb agree when each pair of sizes is equal or holds a 1,
\* and a size of 1 is stretched to the other
Shape(a) == <<Len(a), IF Len(a) = 0 THEN 0 ELSE Len(a[1])>>
\* faulty variant: only equal shapes are accepted
BroadcastsStrict(sa, sb) == sa = sb
Broadcasts(sa, sb) ==
    /\ sa[1] = sb[1] \/ sa[1] = 1 \/ sb[1] = 1
    /\ sa[2] = sb[2] \/ sa[2] = 1 \/ sb[2] = 1
BroadcastShape(sa, sb) ==
    <<IF sa[1] = 1 THEN sb[1] ELSE sa[1], IF sa[2] = 1 THEN sb[2] ELSE sa[2]>>
\* the element of a that lands at (i, j) of the stretched tensor
At(a, i, j) == a[IF Len(a) = 1 THEN 1 ELSE i][IF Len(a[1]) = 1 THEN 1 ELSE j]

---------------------------------------------------------------------------
(* The process-wide random generator.  torch's generator is a              *)
(* deterministic stream fixed by its seed; a draw reads the stream at the  *)
(* generator's position and moves the position on.                         *)

NoiseTable == <<Num(1), Num(-1), Num(0), Num(2), Num(-1), Num(1)>>
UniformTable == <<Num(0), Rat(1, 2), Rat(1, 4), Rat(3, 4)>>

StreamIndex(seed, p, n) == (((seed + 1) * p + p * p) % n) + 1
\* the k-th standard-normal draw of generator g, counted from its position
Randn(g, k) == NoiseTable[StreamIndex(g.seed, g.pos + k, Len(NoiseTable))]
\* the k-th uniform draw of generator g
Rand(g, k) == UniformTable[StreamIndex(g.seed, g.pos + k, Len(UniformTable))]
Advance(g, n) == [g EXCEPT !.pos = @ + n]
ManualSeed(seed) == [seed |-> seed, pos |-> 0]

RandnLike(g, xt) ==
    [i \in 1..Len(xt) |-> [j \in 1..Len(xt[i]) |-> Randn(g, (i - 1) * Len(xt[i]) + j)]]

---------------------------------------------------------------------------
(* math.sqrt on a time step.                                               *)

ISqrt(n) == CHOOSE r \in 0..n : r * r <= n /\ (r + 1) * (r + 1) > n
\* math.sqrt raises ValueError (math domain error) on a negative argument
SqrtRaises(h) == RLess(h, Num(0))
MathSqrt(h) ==
    Rat(ISqrt((h[1] * SqrtPrecision * SqrtPrecision) \div h[2]), SqrtPrecision)

---------------------------------------------------------------------------
(* Vector fields.  A field is a record [cls, theta, sigma].                *)

BrownianMotion(sigma) == [cls |-> "BrownianMotion", theta |-> Num(0), sigma |-> sigma]
OUProcess(theta, sigma) == [cls |-> "OUProcess", theta |-> theta, sigma |-> sigma]

\* a subclass of ODE / SDE whose coefficients return tensors of a shape of
\* their own, whatever the state
FixedField(drift, diffusion) ==
    [cls |-> "FixedField", theta |-> Num(0), sigma |-> Num(0),
     drift |-> drift, diffusion |-> diffusion]

BrownianMotionDrift(f, xt, t) == ZerosLike(xt)
\* faulty variant: sigma * xt
BrownianMotionDiffusionOfState(f, xt, t) == TScale(f.sigma, xt)
BrownianMotionDiffusion(f, xt, t) == TScale(f.sigma, OnesLike(xt))
\* faulty variant: the restoring force has the wrong sign
OUProcessDriftRepel(f, xt, t) == TScale(f.theta, xt)
OUProcessDrift(f, xt, t) == TScale(RNeg(f.theta), xt)
OUProcessDiffusion(f, xt, t) == TScale(f.sigma, OnesLike(xt))

DriftCoefficient(f, xt, t) ==
    IF f.cls = "BrownianMotion" THEN BrownianMotionDrift(f, xt, t)
    ELSE IF f.cls = "FixedField" THEN f.drift
    ELSE OUProcessDrift(f, xt, t)

DiffusionCoefficient(f, xt, t) ==
    IF f.cls = "BrownianMotion" THEN BrownianMotionDiffusion(f, xt, t)
    ELSE IF f.cls = "FixedField" THEN f.diffusion
    ELSE OUProcessDiffusion(f, xt, t)

---------------------------------------------------------------------------
(* The two step rules.  An outcome is [raised, val]: val is the next state *)
(* when the step returns, and <<>> when it raises.  Calls on densities end *)
(* in outcomes of the same form.                                           *)

Returned(val) == [raised |-> FALSE, error |-> "", val |-> val]
RaisedWith(e) == [raised |-> TRUE, error |-> e, val |-> <<>>]
\* math.sqrt's ValueError
Raised == RaisedWith("ValueError")

\* torch's error on operands that cannot be broadcast
ShapeError == RaisedWith("RuntimeError")

\* xt + h * drift: the sum broadcasts its operands
EulerStep(f, xt, t, h) ==
    LET u == DriftCoefficient(f, xt, t)
        sh == BroadcastShape(Shape(xt), Shape(u))
    IN  IF ~Broadcasts(Shape(xt), Shape(u)) THEN ShapeError
        ELSE Returned([i \in 1..sh[1] |->
                          [j \in 1..sh[2] |->
                              RAdd(At(xt, i, j), RMul(h, At(u, i, j)))]])

\* faulty variant: the square root is taken of the step's magnitude, so a
\* negative step no longer raises
EulerMaruyamaStepAbs(f, xt, t, h, z) ==
    Returned(TAdd(TAdd(xt, TScale(h, DriftCoefficient(f, xt, t))),
                  TScale(MathSqrt(<<Abs(h[1]), h[2]>>),
                         TMul(DiffusionCoefficient(f, xt, t), z))))

\* faulty variant: the noise is added without the diffusion coefficient
EulerMaruyamaStepUnscaled(f, xt, t, h, z) ==
    IF SqrtRaises(h) THEN Raised
    ELSE Returned(TAdd(TAdd(xt, TScale(h, DriftCoefficient(f, xt, t))),
                       TScale(MathSqrt(h), z)))

\* xt + h * drift + diffusion * torch.randn_like(xt) * math.sqrt(h), in the
\* order Python evaluates it: the first sum (of shape s1), then the
\* diffusion times the noise z (of shape s2), then math.sqrt(h), then the
\* second sum.  z is drawn before math.sqrt(h) is evaluated, so a step that
\* raises there has consumed its noise; a step whose first sum raises has
\* drawn nothing.
EulerMaruyamaStep(f, xt, t, h, z) ==
    LET u == DriftCoefficient(f, xt, t)
        g == DiffusionCoefficient(f, xt, t)
        s1 == BroadcastShape(Shape(xt), Shape(u))
        s2 == BroadcastShape(Shape(g), Shape(z))
        sh == BroadcastShape(s1, s2)
    IN  IF ~Broadcasts(Shape(xt), Shape(u)) THEN ShapeError
        ELSE IF ~Broadcasts(Shape(g), Shape(z)) THEN ShapeError
        ELSE IF SqrtRaises(h) THEN Raised
        ELSE IF ~Broadcasts(s1, s2) THEN ShapeError
        ELSE Returned([i \in 1..sh[1] |->
                          [j \in 1..sh[2] |->
                              RAdd(RAdd(At(xt, i, j), RMul(h, At(u, i, j))),
                                   RMul(RMul(At(g, i, j), At(z, i, j)),
                                        MathSqrt(h)))]])

EulerSimulator(f) == [kind |-> "EulerSimulator", field |-> f]
EulerMaruyamaSimulator(f) == [kind |-> "EulerMaruyamaSimulator", field |-> f]

\* self.step(x, t, h) on simulator s with the generator in state g
Step(s, xt, t, h, g) ==
    IF s.kind = "EulerSimulator" THEN EulerStep(s.field, xt, t, h)
    ELSE EulerMaruyamaStep(s.field, xt, t, h, RandnLike(g, xt))

\* faulty variant: the step leaves the generator where it found it
StepDrawsNone(s, xt, t, h) == 0
\* how many generator draws self.step makes
StepDraws(s, xt, t, h) ==
    IF s.kind = "EulerSimulator" THEN 0
    ELSE IF ~Broadcasts(Shape(xt), Shape(DriftCoefficient(s.field, xt, t))) THEN 0
    ELSE Numel(xt)

\* faulty variant: the step writes its result into xt (xt += ...)
StepResultInPlace(hp, xref, val) == [heap |-> [hp EXCEPT ![xref] = val], ref |-> xref]
\* the step's result is a new tensor: xt + ... does not write to xt
StepResult(hp, xref, val) == [heap |-> Append(hp, val), ref |-> Len(hp) + 1]
\* x.clone()
Clone(hp, ref) == [heap |-> Append(hp, hp[ref]), ref |-> Len(hp) + 1]
\* torch.stack raises unless every tensor has the shape of the first
StackRaises(hp, refs) == \E k \in 1..Len(refs) : Shape(hp[refs[k]]) # Shape(hp[refs[1]])
\* torch.stack(xs, dim=1): a new tensor holding the recorded states in order
Stack(hp, refs) ==
    [heap |-> Append(hp, [k \in 1..Len(refs) |-> hp[refs[k]]]), ref |-> Len(hp) + 1]

---------------------------------------------------------------------------
(* GaussianMixture.random_2D.  A mixture is [means, covs, weights].        *)

\* faulty variant: the constructor rejects parameters whose leading sizes
\* disagree
GaussianMixtureInitChecked(means, covs, weights) ==
    IF Len(means) # Len(covs) \/ Len(weights) # Len(means)
    THEN [cls |-> "None"]
    ELSE [cls |-> "GaussianMixture", nmodes |-> Len(means), means |-> means,
          covs |-> covs, weights |-> weights]
\* GaussianMixture.__init__: self.nmodes = means.shape[0], and the three
\* parameters are stored as buffers; their sizes are not compared
GaussianMixtureInit(means, covs, weights) ==
    [cls |-> "GaussianMixture", nmodes |-> Len(means), means |-> means,
     covs |-> covs, weights |-> weights]

\* std and scale of the notebook's call GaussianMixture.random_2D(nmodes=5,
\* std=1.0, scale=20.0, seed=3.0)
StdArg == 1
ScaleArg == 20

\* (torch.rand(nmodes, 2) - 0.5) * scale, drawn from generator g
RandomMeans(g, nmodes, scale) ==
    [m \in 1..nmodes |->
        [j \in 1..2 |-> RMul(RSub(Rand(g, (m - 1) * 2 + j), Rat(1, 2)), Num(scale))]]

\* torch.diag_embed(torch.ones(nmodes, 2)) * std ** 2
IsotropicCovs(nmodes, std) ==
    [m \in 1..nmodes |->
        <<<<Num(std * std), Num(0)>>, <<Num(0), Num(std * std)>>>>]

NoMixture ==
    [cls |-> "None", nmodes |-> 0, means |-> <<>>, covs |-> <<>>, weights |-> <<>>]

---------------------------------------------------------------------------
(* The rollouts.                                                           *)

\* how a rollout ended: gen0 and gen1 are the generator when it was called
\* and when it ended, first says it was called before the other rollout, and
\* reseeded that random_2D was called since the rollout before it
NoOut ==
    [status |-> "none", gen0 |-> ManualSeed(0), gen1 |-> ManualSeed(0),
     first |-> FALSE, reseeded |-> FALSE, ref |-> 0, calls |-> <<>>]

\* the simulators and initial states the rollouts are run on: the OU and
\* Brownian parameters are the notebook's
Simulators ==
    { EulerSimulator(OUProcess(Rat(1, 4), Num(0))),
      EulerMaruyamaSimulator(OUProcess(Rat(1, 4), Num(0))),
      EulerMaruyamaSimulator(OUProcess(Rat(1, 4), Rat(1, 4))),
      EulerMaruyamaSimulator(BrownianMotion(Rat(1, 10))) }

InitialStates == { <<<<Num(10)>>>>, <<<<Num(-3)>>, <<Num(10)>>>> }

Schedules == UNION { [1..n -> Times] : n \in 0..MaxLen }

NoProbe == [on |-> FALSE]
NoCoef == [on |-> FALSE]
NoDist == [on |-> FALSE]
NoRuns == [on |-> FALSE]
NoPlot == [on |-> FALSE]
NoNth == [on |-> FALSE]

Init ==
    /\ sim \in Simulators
    /\ ts \in Schedules
    /\ arg_ts = ts
    /\ arg_x \in InitialStates
    /\ heap = <<arg_x>>
    /\ x_init = Len(heap)
    /\ gen \in {ManualSeed(s) : s \in Seeds}
    /\ seeded = FALSE
    /\ target = NoMixture
    /\ pc = "idle"
    /\ x = x_init
    /\ t_idx = 0
    /\ xs = <<>>
    /\ calls = <<>>
    /\ simOut = NoOut
    /\ trajOut = NoOut
    /\ probe = NoProbe
    /\ coef = NoCoef
    /\ dist = NoDist
    /\ runs = NoRuns
    /\ plot = NoPlot
    /\ nth = NoNth

\* faulty variant: range(len(ts) - 2)
LoopStopsEarly == t_idx < Len(ts) - 2
\* range(len(ts) - 1): the loop has another iteration
LoopHasNext == t_idx < Len(ts) - 1
\* t = ts[t_idx]
LoopT == Num(ts[t_idx + 1])
\* faulty variant: every step uses the first step size, ts[1] - ts[0]
LoopHUniform == Num(ts[2] - ts[1])
\* h = ts[t_idx + 1] - ts[t_idx]
LoopH == Num(ts[t_idx + 2] - ts[t_idx + 1])
LoopOutcome == Step(sim, heap[x], LoopT, LoopH, gen)
\* the noise torch.randn_like(x) draws in this iteration's step
LoopNoise ==
    IF StepDraws(sim, heap[x], LoopT, LoopH) = 0 THEN <<>> ELSE RandnLike(gen, heap[x])
\* the call self.step(x, t, h) of this iteration, with how it ended, the
\* generator it found and the noise it drew
LoopCall ==
    [x |-> heap[x], t |-> LoopT, h |-> LoopH, out |-> LoopOutcome,
     g |-> gen, z |-> LoopNoise]

\* faulty variant: xs = []
InitialRecordEmpty(hp, ref) == [heap |-> hp, xs |-> <<>>]
\* faulty variant: the state is recorded before x is rebound to the result
AppendRecordBeforeStep(hp, rec, new, old) ==
    LET c == Clone(hp, old) IN [heap |-> c.heap, xs |-> Append(rec, c.ref)]
\* xs = [x.clone()]
InitialRecord(hp, ref) ==
    LET c == Clone(hp, ref) IN [heap |-> c.heap, xs |-> <<c.ref>>]
\* xs.append(x.clone()), x being the step's result (new), no longer the
\* state the step was called on (old)
AppendRecord(hp, rec, new, old) ==
    LET c == Clone(hp, new) IN [heap |-> c.heap, xs |-> Append(rec, c.ref)]

\* GaussianMixture.random_2D(nmodes, std, scale, seed): the generator is
\* reseeded, the means are drawn, the mixture is built.  The caller makes
\* the call between rollouts, at most once before each.
Random2D(nmodes, seed) ==
    /\ pc = "idle"
    /\ ~seeded
    /\ simOut.status = "none" \/ trajOut.status = "none"
    /\ LET g == ManualSeed(seed)
       IN  /\ target' = GaussianMixtureInit(RandomMeans(g, nmodes, ScaleArg),
                                            IsotropicCovs(nmodes, StdArg),
                                            [m \in 1..nmodes |-> Num(1)])
           /\ gen' = Advance(g, 2 * nmodes)
    /\ seeded' = TRUE
    /\ UNCHANGED <<sim, ts, arg_x, arg_ts, heap, x_init, pc, x, t_idx, xs, calls,
                   simOut, trajOut, probe, coef, dist, runs, plot, nth>>

\* simulator.simulate(x, ts) is called.  Each of the two rollouts is called
\* once, in either order, on the same simulator, initial state and schedule.
CallSimulate ==
    /\ pc = "idle"
    /\ simOut.status = "none"
    /\ pc' = "simulate"
    /\ x' = x_init
    /\ t_idx' = 0
    /\ xs' = <<>>
    /\ calls' = <<>>
    /\ simOut' = [status |-> "running", gen0 |-> gen, gen1 |-> gen,
                  first |-> trajOut.status = "none", reseeded |-> seeded,
                  ref |-> 0, calls |-> <<>>]
    /\ seeded' = FALSE
    /\ UNCHANGED <<sim, ts, arg_x, arg_ts, heap, x_init, gen, target, trajOut,
                   probe, coef, dist, runs, plot, nth>>

\* one iteration of simulate's loop
SimulateStep ==
    /\ pc = "simulate"
    /\ LoopHasNext
    /\ calls' = Append(calls, LoopCall)
    /\ gen' = Advance(gen, StepDraws(sim, heap[x], LoopT, LoopH))
    /\ IF LoopOutcome.raised
       THEN /\ pc' = "idle"
            /\ simOut' = [simOut EXCEPT !.status = "raised", !.calls = calls',
                                        !.gen1 = gen']
            /\ UNCHANGED <<heap, x, t_idx>>
       ELSE /\ LET r == StepResult(heap, x, LoopOutcome.val)
               IN  heap' = r.heap /\ x' = r.ref
            /\ t_idx' = t_idx + 1
            /\ UNCHANGED <<pc, simOut>>
    /\ UNCHANGED <<sim, ts, arg_x, arg_ts, x_init, seeded, target, xs, trajOut,
                   probe, coef, dist, runs, plot, nth>>

\* return x
SimulateReturn ==
    /\ pc = "simulate"
    /\ ~LoopHasNext
    /\ pc' = "idle"
    /\ simOut' = [simOut EXCEPT !.status = "returned", !.ref = x, !.calls = calls,
                                !.gen1 = gen]
    /\ UNCHANGED <<sim, ts, arg_x, arg_ts, heap, x_init, gen, seeded, target, x,
                   t_idx, xs, calls, trajOut, probe, coef, dist,
                   runs, plot, nth>>

\* simulator.simulate_with_trajectory(x, ts) is called: xs = [x.clone()]
CallTrajectory ==
    /\ pc = "idle"
    /\ trajOut.status = "none"
    /\ pc' = "simulate_with_trajectory"
    /\ x' = x_init
    /\ t_idx' = 0
    /\ LET c == InitialRecord(heap, x_init)
       IN  heap' = c.heap /\ xs' = c.xs
    /\ calls' = <<>>
    /\ trajOut' = [status |-> "running", gen0 |-> gen, gen1 |-> gen,
                   first |-> simOut.status = "none", reseeded |-> seeded,
                   ref |-> 0, calls |-> <<>>]
    /\ seeded' = FALSE
    /\ UNCHANGED <<sim, ts, arg_x, arg_ts, x_init, gen, target, simOut,
                   probe, coef, dist, runs, plot, nth>>

\* one iteration of simulate_with_trajectory's loop
TrajectoryStep ==
    /\ pc = "simulate_with_trajectory"
    /\ LoopHasNext
    /\ calls' = Append(calls, LoopCall)
    /\ gen' = Advance(gen, StepDraws(sim, heap[x], LoopT, LoopH))
    /\ IF LoopOutcome.raised
       THEN /\ pc' = "idle"
            /\ trajOut' = [trajOut EXCEPT !.status = "raised", !.calls = calls',
                                          !.gen1 = gen']
            /\ UNCHANGED <<heap, x, t_idx, xs>>
       ELSE /\ LET r == StepResult(heap, x, LoopOutcome.val)
                   c == AppendRecord(r.heap, xs, r.ref, x)
               IN  heap' = c.heap /\ x' = r.ref /\ xs' = c.xs
            /\ t_idx' = t_idx + 1
            /\ UNCHANGED <<pc, trajOut>>
    /\ UNCHANGED <<sim, ts, arg_x, arg_ts, x_init, seeded, target, simOut,
                   probe, coef, dist, runs, plot, nth>>

\* return torch.stack(xs, dim=1)
TrajectoryReturn ==
    /\ pc = "simulate_with_trajectory"
    /\ ~LoopHasNext
    /\ pc' = "idle"
    /\ IF StackRaises(heap, xs)
       THEN /\ trajOut' = [trajOut EXCEPT !.status = "raised", !.calls = calls,
                                          !.gen1 = gen]
            /\ UNCHANGED heap
       ELSE LET s == Stack(heap, xs)
            IN  /\ heap' = s.heap
                /\ trajOut' = [trajOut EXCEPT !.status = "returned", !.ref = s.ref,
                                              !.calls = calls, !.gen1 = gen]
    /\ UNCHANGED <<sim, ts, arg_x, arg_ts, x_init, gen, seeded, target, x,
                   t_idx, xs, calls, simOut, probe, coef, dist,
                   runs, plot, nth>>

Next ==
    \/ \E n \in ModeCounts, s \in Seeds : Random2D(n, s)
    \/ CallSimulate
    \/ SimulateStep
    \/ SimulateReturn
    \/ CallTrajectory
    \/ TrajectoryStep
    \/ TrajectoryReturn

Spec == Init /\ [][Next]_vars

---------------------------------------------------------------------------
(* Properties of the rollouts.                                             *)

StrictlyIncreasing(s) == \A i \in 1..(Len(s) - 1) : s[i] < s[i + 1]
HasDecreasingPair(s) == \E i \in 1..(Len(s) - 1) : s[i + 1] < s[i]
\* the recorded states simulate_with_trajectory returned, in time order
Trajectory == heap[trajOut.ref]
\* the state simulate returned
FinalState == heap[simOut.ref]
Finished(o) == o.status \in {"returned", "raised"}

\* C1 (as stated): for every schedule of length n, simulate_with_trajectory
\* returns exactly n recorded states, the first equal to the initial state.
C1_TrajectoryLengthAnySchedule ==
    trajOut.status = "returned" =>
        /\ Len(Trajectory) = Len(ts)
        /\ Trajectory[1] = arg_x

\* C1 (amended): for every schedule of length n >= 1, a
\* simulate_with_trajectory call that returns returns exactly n recorded
\* states, the first equal to the initial state; for the empty schedule it
\* returns one recorded state, the initial state.
C1_TrajectoryLength ==
    trajOut.status = "returned" =>
        /\ Len(ts) >= 1 => Len(Trajectory) = Len(ts)
        /\ Len(ts) = 0 => Len(Trajectory) = 1
        /\ Trajectory[1] = arg_x

C1_Witness ==
    /\ trajOut.status = "returned"
    /\ Len(ts) = 3
    /\ Len(Trajectory) = 3
    /\ Trajectory[3] # arg_x

\* C2: when simulate and simulate_with_trajectory ran on the same inputs from
\* the same generator state (so with the same noise draws), the last
\* recorded state of the trajectory equals the state simulate returned.
C2_FinalStateConsistency ==
    (/\ simOut.status = "returned"
     /\ trajOut.status = "returned"
     /\ simOut.gen0 = trajOut.gen0) =>
        Last(Trajectory) = FinalState

C2_Witness ==
    /\ simOut.status = "returned"
    /\ trajOut.status = "returned"
    /\ simOut.gen0 = trajOut.gen0
    /\ sim.kind = "EulerMaruyamaSimulator"
    /\ sim.field.sigma # Num(0)
    /\ Len(ts) = 3
    /\ FinalState # arg_x
    /\ Last(Trajectory) = FinalState

\* C4 (as stated): both rollouts fail, returning nothing, whenever the
\* schedule has fewer than 1 timestep or is not strictly increasing, for
\* both simulators.
C4_InvalidScheduleFails ==
    (Len(ts) < 1 \/ ~StrictlyIncreasing(ts)) =>
        /\ simOut.status # "returned"
        /\ trajOut.status # "returned"

\* C4 (amended): a rollout fails with an error, returning no state or
\* trajectory, exactly when the simulator is an EulerMaruyamaSimulator and
\* the schedule has a pair with ts[i+1] < ts[i]; an empty schedule, equal
\* consecutive timesteps and every schedule under EulerSimulator are
\* accepted and the rollout returns.
C4_FailsOnlyOnDecreasingPair ==
    \A o \in {simOut, trajOut} :
        /\ o.status = "raised" =>
              /\ sim.kind = "EulerMaruyamaSimulator"
              /\ HasDecreasingPair(ts)
              /\ o.ref = 0
        /\ o.status = "returned" =>
              \/ sim.kind = "EulerSimulator"
              \/ ~HasDecreasingPair(ts)

C4_Witness ==
    /\ simOut.status = "raised"
    /\ trajOut.status = "raised"
    /\ Len(ts) = 3
    /\ ts[1] < ts[2]

\* the i-th call of a rollout is step(x_i, ts[i], ts[i+1] - ts[i]), x_1 being
\* the initial state and x_i the result of the call before
CallsInOrder(log) ==
    \A i \in 1..Len(log) :
        /\ log[i].t = Num(ts[i])
        /\ log[i].h = Num(ts[i + 1] - ts[i])
        /\ log[i].x = IF i = 1 THEN arg_x ELSE log[i - 1].out.val

\* C5 (as stated): on a schedule of length n >= 2 a rollout calls step
\* exactly n-1 times, in schedule order, each on the result of the call
\* before, and then returns: there is no early exit.
C5_AlwaysAllSteps ==
    \A o \in {simOut, trajOut} :
        (Finished(o) /\ Len(ts) >= 2) =>
            /\ o.status = "returned"
            /\ Len(o.calls) = Len(ts) - 1
            /\ CallsInOrder(o.calls)

\* C5 (amended): on a schedule of length n >= 2 a rollout calls step in
\* schedule order, the i-th call being step(x_i, ts[i], ts[i+1] - ts[i]) on
\* the result of the call before, and it returns only after exactly n-1
\* calls; the one early exit is a step that raises (EulerMaruyamaSimulator
\* on a pair with ts[i+1] < ts[i]), which ends the rollout with that error
\* and no further call.
C5_StepsInScheduleOrder ==
    /\ CallsInOrder(calls)
    /\ \A i \in 1..(Len(calls) - 1) : ~calls[i].out.raised
    /\ \A o \in {simOut, trajOut} :
        /\ Finished(o) => CallsInOrder(o.calls)
        /\ (o.status = "returned" /\ Len(ts) >= 2) =>
              /\ Len(o.calls) = Len(ts) - 1
              /\ \A i \in 1..Len(o.calls) : ~o.calls[i].out.raised
        /\ o.status = "raised" =>
              /\ Last(o.calls).out.raised
              /\ Last(o.calls).h[1] < 0
              /\ \A i \in 1..(Len(o.calls) - 1) : ~o.calls[i].out.raised
    /\ simOut.status = "returned" =>
          FinalState = IF simOut.calls = <<>> THEN arg_x ELSE Last(simOut.calls).out.val

C5_Witness ==
    /\ simOut.status = "returned"
    /\ Len(ts) = 3
    /\ Len(simOut.calls) = 2
    /\ simOut.calls[1].h # simOut.calls[2].h
    /\ simOut.calls[2].x # arg_x

\* C6: with a schedule of exactly 1 timestep no step is made, simulate
\* returns the initial state unchanged and simulate_with_trajectory returns
\* a trajectory whose only entry is the initial state.
C6_SingleTimestep ==
    Len(ts) = 1 =>
        /\ calls = <<>>
        /\ simOut.status # "raised" /\ trajOut.status # "raised"
        /\ simOut.status = "returned" => FinalState = arg_x /\ simOut.calls = <<>>
        /\ trajOut.status = "returned" => Trajectory = <<arg_x>> /\ trajOut.calls = <<>>

C6_Witness ==
    /\ Len(ts) = 1
    /\ simOut.status = "returned"
    /\ trajOut.status = "returned"

\* C7: a rollout has no side effect on its inputs or on the simulator: the
\* caller's initial state and the schedule keep the values they had before
\* the call, and a state already recorded in the trajectory (and a returned
\* trajectory) is never changed by a later step.
C7_NoSideEffects ==
    /\ [](heap[x_init] = arg_x /\ ts = arg_ts)
    /\ [][/\ sim' = sim
          /\ \A i \in 1..Len(xs) :
                (i <= Len(xs') /\ xs'[i] = xs[i]) => heap'[xs[i]] = heap[xs[i]]
          /\ (trajOut.status = "returned" /\ trajOut' = trajOut) =>
                heap'[trajOut.ref] = heap[trajOut.ref]]_vars

C7_Witness ==
    /\ simOut.status = "returned"
    /\ trajOut.status = "returned"
    /\ Len(ts) = 3
    /\ FinalState # arg_x
    /\ Trajectory[2] # arg_x
    /\ heap[x_init] = arg_x

\* the zero-diffusion OU process of the notebook (theta = 0.25, sigma = 0)
ZeroDiffusionOU == sim.field = OUProcess(Rat(1, 4), Num(0))
\* batch element i of a trajectory never rises and never goes below zero
DecaysTowardZero(tr, i) ==
    \A k \in 1..Len(tr) :
        /\ RLeq(Num(0), tr[k][i][1])
        /\ k > 1 => RLeq(tr[k][i][1], tr[k - 1][i][1])
\* every step size h satisfies theta * h <= 1
StepsWithinStability ==
    \A j \in 1..(Len(ts) - 1) : RLeq(RMul(sim.field.theta, Num(ts[j + 1] - ts[j])), Num(1))

\* C8 (as stated): the zero-diffusion OU process from x0 = 10 decays
\* monotonically toward 0 over any strictly increasing schedule, large step
\* sizes included.
C8_DecayOnAnySchedule ==
    (ZeroDiffusionOU /\ StrictlyIncreasing(ts) /\ trajOut.status = "returned") =>
        \A i \in 1..Len(arg_x) :
            arg_x[i] = <<Num(10)>> => DecaysTowardZero(Trajectory, i)

\* C8 (amended): the zero-diffusion OU process (theta = 0.25) from x0 = 10
\* decays monotonically toward 0 over any strictly increasing schedule whose
\* step sizes are all at most 1/theta = 4; a larger step overshoots zero.
C8_DecayWithinStability ==
    (/\ ZeroDiffusionOU
     /\ StrictlyIncreasing(ts)
     /\ StepsWithinStability
     /\ trajOut.status = "returned") =>
        \A i \in 1..Len(arg_x) :
            arg_x[i] = <<Num(10)>> => DecaysTowardZero(Trajectory, i)

C8_Witness ==
    /\ ZeroDiffusionOU
    /\ sim.kind = "EulerMaruyamaSimulator"
    /\ arg_x = <<<<Num(10)>>>>
    /\ ts = <<0, 1, 3>>
    /\ trajOut.status = "returned"
    /\ Trajectory = <<<<<<Num(10)>>>>, <<<<Rat(15, 2)>>>>, <<<<Rat(15, 4)>>>>>>

\* C14 (as stated): an Euler-Maruyama rollout over a schedule of length n
\* consumes exactly n-1 noise draws of the state's shape, one per step, and
\* no draw is shared between two rollouts (rollouts on the same stream read
\* different parts of it).
C14_ExactlyOneDrawPerStep ==
    sim.kind = "EulerMaruyamaSimulator" =>
        /\ \A o \in {simOut, trajOut} :
              Finished(o) =>
                  o.gen1 = Advance(o.gen0, (Len(ts) - 1) * Numel(arg_x))
        /\ (Finished(simOut) /\ Finished(trajOut)
               /\ simOut.gen0.seed = trajOut.gen0.seed
               /\ simOut.calls # <<>>) =>
              \/ simOut.gen1.pos <= trajOut.gen0.pos
              \/ trajOut.gen1.pos <= simOut.gen0.pos

\* C14 (amended): an Euler-Maruyama rollout that returns over a schedule of
\* length n >= 1 has consumed exactly n-1 noise draws of the state's shape,
\* one per step: every step draws where the step before left the generator,
\* so no draw is reused by a later step.  A rollout ended by a step that
\* raises has consumed one draw per call made, fewer than n-1 unless the
\* last step raised.  A rollout
\* called after another, with no random_2D call between them, starts where
\* the other left the generator, so the two share no draw; after a reseed
\* the later rollout reads the stream from its start again.  An Euler
\* rollout draws nothing.
C14_FreshNoisePerStep ==
    \A o \in {simOut, trajOut} :
        Finished(o) =>
            /\ sim.kind = "EulerSimulator" => o.gen1 = o.gen0
            /\ sim.kind = "EulerMaruyamaSimulator" =>
                  /\ \A i \in 1..Len(o.calls) :
                        /\ o.calls[i].g = Advance(o.gen0, (i - 1) * Numel(arg_x))
                        /\ Shape(o.calls[i].z) = Shape(arg_x)
                        /\ \A r \in 1..Len(arg_x) : \A c \in 1..Len(arg_x[1]) :
                              o.calls[i].z[r][c] =
                                  Randn(o.gen0, (i - 1) * Numel(arg_x)
                                                + (r - 1) * Len(arg_x[1]) + c)
                  /\ o.gen1 = Advance(o.gen0, Len(o.calls) * Numel(arg_x))
                  /\ (o.status = "returned" /\ Len(ts) >= 1) =>
                        Len(o.calls) = Len(ts) - 1
                  /\ o.status = "raised" => Len(o.calls) <= Len(ts) - 1
            /\ (~o.first /\ ~o.reseeded) =>
                  o.gen0 = (IF o = simOut THEN trajOut ELSE simOut).gen1

\* two steps on a state of two elements, each with noise of its own, and
\* the second rollout drawing on from where the first stopped
C14_Witness ==
    /\ sim.kind = "EulerMaruyamaSimulator"
    /\ Numel(arg_x) = 2
    /\ Len(ts) = 3
    /\ simOut.status = "returned"
    /\ trajOut.status = "returned"
    /\ Len(simOut.calls) = 2
    /\ simOut.calls[1].z # simOut.calls[2].z
    /\ simOut.gen1.pos = simOut.gen0.pos + 4
    /\ trajOut.gen0 = simOut.gen1

---------------------------------------------------------------------------
(* One step of both simulators on the same arguments: EulerSimulator.step  *)
(* on the ODE with a field's drift, and EulerMaruyamaSimulator.step on the *)
(* field itself, with any noise.                                           *)

ProbeFields ==
    { OUProcess(Rat(1, 4), Num(0)), OUProcess(Num(-1), Num(0)),
      BrownianMotion(Num(0)), OUProcess(Rat(1, 4), Rat(1, 4)),
      BrownianMotion(Rat(1, 10)) }
ProbeStates == { <<<<Num(10)>>>>, <<<<Num(-3), Rat(1, 2)>>>> }
ProbeTimes == { Num(0), Num(3) }
\* step sizes: negative, zero and positive
ProbeSteps == { Num(-1), Rat(-1, 4), Num(0), Rat(1, 4), Num(1), Num(3) }
NoiseValues == { Num(-1), Num(0), Num(2) }
\* every value torch.randn_like(xt) can take here
NoiseLike(xt) == [1..Len(xt) -> [1..Len(xt[1]) -> NoiseValues]]

\* the state of the rollout variables while another part is exercised
RolloutAtRest ==
    /\ sim = EulerSimulator(OUProcess(Rat(1, 4), Num(0)))
    /\ ts = <<>>
    /\ arg_ts = ts
    /\ arg_x = <<<<Num(10)>>>>
    /\ heap = <<arg_x>>
    /\ x_init = Len(heap)
    /\ gen \in {ManualSeed(s) : s \in Seeds}
    /\ seeded = FALSE
    /\ target = NoMixture
    /\ pc = "idle"
    /\ x = x_init
    /\ t_idx = 0
    /\ xs = <<>>
    /\ calls = <<>>
    /\ simOut = NoOut
    /\ trajOut = NoOut

InitStep ==
    /\ RolloutAtRest
    /\ probe \in { [on |-> TRUE, field |-> f, x |-> xt, t |-> t, h |-> h,
                    z |-> ZerosLike(xt),
                    eulerDone |-> FALSE, euler |-> Raised,
                    emDone |-> FALSE, em |-> Raised] :
                   f \in ProbeFields, xt \in ProbeStates, t \in ProbeTimes,
                   h \in ProbeSteps }
    /\ coef = NoCoef
    /\ dist = NoDist
    /\ runs = NoRuns
    /\ plot = NoPlot
    /\ nth = NoNth

\* EulerSimulator(ode).step(x, t, h), the ode having the field's drift
ProbeEuler ==
    /\ probe.on
    /\ ~probe.eulerDone
    /\ probe' = [probe EXCEPT !.eulerDone = TRUE,
                              !.euler = EulerStep(probe.field, probe.x, probe.t, probe.h)]
    /\ UNCHANGED <<rolloutVars, coef, dist, runs, plot, nth>>

\* EulerMaruyamaSimulator(sde).step(x, t, h), drawing the noise z
ProbeEulerMaruyama ==
    /\ probe.on
    /\ ~probe.emDone
    /\ \E z \in NoiseLike(probe.x) :
          probe' = [probe EXCEPT !.emDone = TRUE, !.z = z,
                                 !.em = EulerMaruyamaStep(probe.field, probe.x,
                                                          probe.t, probe.h, z)]
    /\ UNCHANGED <<rolloutVars, coef, dist, runs, plot, nth>>

NextStep == ProbeEuler \/ ProbeEulerMaruyama

SpecStep == InitStep /\ [][NextStep]_vars

ZeroDiffusion(f) == f.sigma = Num(0)

\* C3 (as stated): with a zero diffusion coefficient, EulerMaruyamaSimulator's
\* step has the same outcome as EulerSimulator's step for all states, times
\* and step sizes, zero and negative ones included, whatever the noise.
C3_DegeneratesForAnyStep ==
    (probe.on /\ ZeroDiffusion(probe.field) /\ probe.eulerDone /\ probe.emDone) =>
        probe.em = probe.euler

\* C3 (amended): with a zero diffusion coefficient, EulerMaruyamaSimulator's
\* step returns exactly what EulerSimulator's step returns for all states,
\* all times and all step sizes dt >= 0 (zero included), whatever the noise;
\* for dt < 0 EulerMaruyamaSimulator's step raises (math.sqrt of a negative
\* number) while EulerSimulator's step returns.
C3_DegeneratesForNonNegativeStep ==
    (probe.on /\ ZeroDiffusion(probe.field) /\ probe.eulerDone /\ probe.emDone) =>
        /\ ~probe.euler.raised
        /\ RLeq(Num(0), probe.h) => probe.em = probe.euler
        /\ RLess(probe.h, Num(0)) => probe.em.raised

C3_Witness ==
    /\ probe.on
    /\ ZeroDiffusion(probe.field)
    /\ probe.eulerDone /\ probe.emDone
    /\ RLess(Num(0), probe.h)
    /\ probe.z # ZerosLike(probe.x)
    /\ probe.em = probe.euler
    /\ ~probe.em.raised
    /\ probe.em.val # probe.x

---------------------------------------------------------------------------
(* Densities.  A Gaussian is [cls, mean, cov]: mean a vector, cov a square *)
(* matrix (a sequence of rows).  Dimensions 1 and 2 are modelled.          *)

NoObject == [cls |-> "None"]
\* faulty variant: the constructor rejects a covariance cholesky would reject
GaussianInitValidating(mean, cov) ==
    IF ~RLess(Num(0), cov[1][1])
       \/ ~RLess(Num(0), RSub(RMul(cov[1][1], cov[2][2]), RMul(cov[2][1], cov[2][1])))
    THEN NoObject
    ELSE [cls |-> "Gaussian", mean |-> mean, cov |-> cov]
\* Gaussian.__init__: the parameters are stored as buffers, unchecked
GaussianInit(mean, cov) == [cls |-> "Gaussian", mean |-> mean, cov |-> cov]

\* the second pivot of the factorization of a 2x2 matrix: it reads the
\* lower triangle only
SecondPivot(cov) ==
    RSub(cov[2][2], RDiv(RMul(cov[2][1], cov[2][1]), cov[1][1]))

\* torch.linalg.cholesky, called by MultivariateNormal's constructor, raises
\* unless every pivot is positive
CholeskyRaises(cov) ==
    IF ~RLess(Num(0), cov[1][1]) THEN TRUE
    ELSE IF Len(cov) = 1 THEN FALSE
    ELSE ~RLess(Num(0), SecondPivot(cov))

\* (x - mean)^T cov^-1 (x - mean), by the triangular solve log_prob does
Mahalanobis(mean, cov, row) ==
    LET d1 == RSub(row[1], mean[1])
        m1 == RDiv(RMul(d1, d1), cov[1][1])
    IN  IF Len(cov) = 1 THEN m1
        ELSE LET d2 == RSub(RSub(row[2], mean[2]),
                            RMul(RDiv(cov[2][1], cov[1][1]), d1))
             IN  RAdd(m1, RDiv(RMul(d2, d2), SecondPivot(cov)))

\* Gaussian.log_density(x), shape (batch_size, 1): the distribution is built
\* on every call, so a covariance cholesky rejects raises here.  The value
\* is kept without its normalising constant -log sqrt(det(2 pi cov)), which
\* does not depend on x.
GaussianLogDensity(g, xq) ==
    IF CholeskyRaises(g.cov) THEN RaisedWith("LinAlgError")
    ELSE Returned([i \in 1..Len(xq) |->
                      <<RMul(Rat(-1, 2), Mahalanobis(g.mean, g.cov, xq[i]))>>])

Shift(row, j, delta) == [k \in 1..Len(row) |-> IF k = j THEN RAdd(row[k], delta) ELSE row[k]]
\* log_density at one point
LogDensityAt(g, row) == GaussianLogDensity(g, <<row>>).val[1][1]

\* Density.score(x) = vmap(jacrev(log_density)): the gradient of
\* log_density at each batch element.  The derivative is taken as the
\* central difference over a unit step, which is the exact derivative of a
\* quadratic log-density.
Score(g, xq) ==
    IF GaussianLogDensity(g, xq).raised THEN GaussianLogDensity(g, xq)
    ELSE Returned([i \in 1..Len(xq) |->
                      [j \in 1..Len(xq[i]) |->
                          RDiv(RSub(LogDensityAt(g, Shift(xq[i], j, Num(1))),
                                    LogDensityAt(g, Shift(xq[i], j, Num(-1)))),
                               Num(2))]])

LangevinSDE(sigma, density) ==
    [cls |-> "LangevinSDE", theta |-> Num(0), sigma |-> sigma, density |-> density]

\* faulty variant: the factor 1/2 is missing
LangevinSDEDriftNoHalf(f, xt, t) ==
    LET sc == Score(f.density, xt)
    IN  IF sc.raised THEN sc
        ELSE Returned(TScale(RMul(f.sigma, f.sigma), sc.val))
\* self.sigma**2 * self.density.score(xt) / 2
LangevinSDEDrift(f, xt, t) ==
    LET sc == Score(f.density, xt)
    IN  IF sc.raised THEN sc
        ELSE Returned(TScale(RDiv(Num(1), Num(2)), TScale(RMul(f.sigma, f.sigma), sc.val)))
LangevinSDEDiffusion(f, xt, t) == TScale(f.sigma, OnesLike(xt))

---------------------------------------------------------------------------
(* Coefficients of OUProcess(theta, sigma) and of the LangevinSDE built on *)
(* the zero-mean Gaussian of variance sigma^2 / (2 theta), at the same     *)
(* state and time.  theta = 0 has no such Gaussian (the variance divides   *)
(* by zero) and is left out; a negative theta gives a negative variance.   *)

CoefThetas == { Rat(1, 4), Rat(1, 2), Num(2), Num(-1) }
CoefSigmas == { Rat(1, 4), Num(1), Num(-2), Rat(3, 5) }
CoefStates == { <<<<Num(10)>>>>, <<<<Num(-3), Rat(1, 2)>>>>,
                <<<<Num(1), Num(2)>>, <<Num(0), Num(-4)>>>> }
CoefTimes == { Num(0), Num(3) }

Identity(dim, c) == [i \in 1..dim |-> [j \in 1..dim |-> IF i = j THEN c ELSE Num(0)]]
\* Gaussian(mean = 0, cov = sigma^2 / (2 theta) * I)
StationaryGaussian(theta, sigma, dim) ==
    GaussianInit([j \in 1..dim |-> Num(0)],
                 Identity(dim, RDiv(RMul(sigma, sigma), RMul(Num(2), theta))))

InitCoef ==
    /\ RolloutAtRest
    /\ probe = NoProbe
    /\ coef \in { [on |-> TRUE, theta |-> th, sigma |-> sg, x |-> xt, t |-> t,
                   bmDone |-> FALSE, bmDiffusion |-> <<>>,
                   ouDone |-> FALSE, ouDrift |-> <<>>, ouDiffusion |-> <<>>,
                   lvDone |-> FALSE, lvDrift |-> Raised, lvDiffusion |-> <<>>] :
                  th \in CoefThetas, sg \in CoefSigmas, xt \in CoefStates,
                  t \in CoefTimes }
    /\ dist = NoDist
    /\ runs = NoRuns
    /\ plot = NoPlot
    /\ nth = NoNth

\* BrownianMotion(sigma): diffusion_coefficient
EvalBrownian ==
    /\ coef.on
    /\ ~coef.bmDone
    /\ coef' = [coef EXCEPT !.bmDone = TRUE,
                            !.bmDiffusion =
                                BrownianMotionDiffusion(BrownianMotion(coef.sigma),
                                                        coef.x, coef.t)]
    /\ UNCHANGED <<rolloutVars, probe, dist, runs, plot, nth>>

\* OUProcess(theta, sigma): drift_coefficient and diffusion_coefficient
EvalOU ==
    /\ coef.on
    /\ ~coef.ouDone
    /\ LET f == OUProcess(coef.theta, coef.sigma)
       IN  coef' = [coef EXCEPT !.ouDone = TRUE,
                                !.ouDrift = OUProcessDrift(f, coef.x, coef.t),
                                !.ouDiffusion = OUProcessDiffusion(f, coef.x, coef.t)]
    /\ UNCHANGED <<rolloutVars, probe, dist, runs, plot, nth>>

\* LangevinSDE(sigma, density): drift_coefficient and diffusion_coefficient
EvalLangevin ==
    /\ coef.on
    /\ ~coef.lvDone
    /\ LET f == LangevinSDE(coef.sigma,
                            StationaryGaussian(coef.theta, coef.sigma, Len(coef.x[1])))
       IN  coef' = [coef EXCEPT !.lvDone = TRUE,
                                !.lvDrift = LangevinSDEDrift(f, coef.x, coef.t),
                                !.lvDiffusion = LangevinSDEDiffusion(f, coef.x, coef.t)]
    /\ UNCHANGED <<rolloutVars, probe, dist, runs, plot, nth>>

NextCoef == EvalBrownian \/ EvalOU \/ EvalLangevin

SpecCoef == InitCoef /\ [][NextCoef]_vars

Filled(xt, c) == [i \in 1..Len(xt) |-> [j \in 1..Len(xt[i]) |-> c]]

\* C15: for BrownianMotion(sigma), OUProcess(theta, sigma) and
\* LangevinSDE(sigma, density), diffusion_coefficient(x, t) has the shape of
\* x and holds sigma in every component, for every state x and every time
\* t: it depends neither on t nor on the values of x.
C15_DiffusionIsSigma ==
    coef.on =>
        /\ coef.bmDone => coef.bmDiffusion = Filled(coef.x, coef.sigma)
        /\ coef.ouDone => coef.ouDiffusion = Filled(coef.x, coef.sigma)
        /\ coef.lvDone => coef.lvDiffusion = Filled(coef.x, coef.sigma)

\* the three coefficients at a state of two rows with values unlike sigma,
\* at a time other than 0
C15_Witness ==
    /\ coef.on
    /\ coef.bmDone /\ coef.ouDone /\ coef.lvDone
    /\ coef.sigma = Rat(3, 5)
    /\ coef.t = Num(3)
    /\ coef.x = <<<<Num(1), Num(2)>>, <<Num(0), Num(-4)>>>>
    /\ coef.bmDiffusion = <<<<Rat(3, 5), Rat(3, 5)>>, <<Rat(3, 5), Rat(3, 5)>>>>
    /\ coef.ouDiffusion = coef.bmDiffusion
    /\ coef.lvDiffusion = coef.bmDiffusion

---------------------------------------------------------------------------
(* Sampling and the mixture's distribution.                                *)

\* the lower-triangular factor of cov (scale_tril), a 2x2 matrix
CholeskyFactor(cov) ==
    LET l11 == MathSqrt(cov[1][1])
    IN  <<<<l11, Num(0)>>,
          <<RDiv(cov[2][1], l11), MathSqrt(SecondPivot(cov))>>>>

\* loc + scale_tril @ eps for one draw eps
Affine(mean, cov, eps) ==
    LET l == CholeskyFactor(cov)
    IN  [j \in 1..2 |-> RAdd(mean[j], RAdd(RMul(l[j][1], eps[1]), RMul(l[j][2], eps[2])))]

\* Gaussian.sample(n): the distribution is built (cholesky), then n draws of
\* 2 standard normals each are taken from the generator g
GaussianSample(gs, n, g) ==
    IF CholeskyRaises(gs.cov) THEN RaisedWith("LinAlgError")
    ELSE Returned([i \in 1..n |->
                      Affine(gs.mean, gs.cov,
                             <<Randn(g, 2 * (i - 1) + 1), Randn(g, 2 * (i - 1) + 2)>>)])
GaussianSampleDraws(gs, n) == IF CholeskyRaises(gs.cov) THEN 0 ELSE 2 * n

RECURSIVE SumTo(_, _)
SumTo(w, k) == IF k = 0 THEN Num(0) ELSE RAdd(SumTo(w, k - 1), w[k])
\* D.Categorical(probs=weights, validate_args=False): probs / probs.sum(-1);
\* nothing is checked, and a zero sum gives nan
ProbsAreNan(w) == SumTo(w, Len(w)) = Num(0)
NormalizedProbs(w) == [m \in 1..Len(w) |-> RDiv(w[m], SumTo(w, Len(w)))]
\* torch.multinomial rejects nan and negative probabilities
MultinomialRaises(w) ==
    IF ProbsAreNan(w) THEN TRUE
    ELSE \E m \in 1..Len(w) : RLess(NormalizedProbs(w)[m], Num(0))
\* the component a uniform draw u selects
PickComponent(w, u) ==
    LET p == NormalizedProbs(w)
    IN  CHOOSE m \in 1..Len(w) :
            /\ RLess(u, SumTo(p, m))
            /\ \A k \in 1..(m - 1) : ~RLess(u, SumTo(p, k))

\* D.MultivariateNormal(loc=means, covariance_matrix=covs) broadcasts the
\* leading sizes of means and covs: equal sizes agree, a size of 1 stretches
\* to the other, anything else is an error of torch.broadcast_shapes
BroadcastRaises(mx) ==
    Len(mx.means) # Len(mx.covs) /\ Len(mx.means) # 1 /\ Len(mx.covs) # 1
\* the batch size of the component distribution
ComponentCount(mx) ==
    IF Len(mx.means) = 1 THEN Len(mx.covs) ELSE Len(mx.means)
ComponentMeans(mx) ==
    [m \in 1..ComponentCount(mx) |->
        IF Len(mx.means) = 1 THEN mx.means[1] ELSE mx.means[m]]
ComponentCovs(mx) ==
    [m \in 1..ComponentCount(mx) |->
        IF Len(mx.covs) = 1 THEN mx.covs[1] ELSE mx.covs[m]]

\* GaussianMixture.distribution, built on every sample and log_density
\* call: the batched MultivariateNormal broadcasts its parameters and
\* factorizes every covariance, then D.MixtureSameFamily compares the number
\* of weights with the number of components (a check validate_args does not
\* switch off)
MixtureDistribution(mx) ==
    IF BroadcastRaises(mx) THEN RaisedWith("RuntimeError")
    ELSE IF \E m \in 1..Len(mx.covs) : CholeskyRaises(mx.covs[m])
         THEN RaisedWith("LinAlgError")
    ELSE IF Len(mx.weights) # ComponentCount(mx) THEN RaisedWith("ValueError")
    ELSE Returned([means |-> ComponentMeans(mx), covs |-> ComponentCovs(mx),
                   weights |-> mx.weights])
MixtureDistributionRaises(mx) == MixtureDistribution(mx).raised

\* GaussianMixture.sample(n): the distribution is built, n components are
\* drawn (multinomial), then n draws of every component, of which the
\* selected ones are kept
MixtureSample(mx, n, g) ==
    IF MixtureDistributionRaises(mx) THEN MixtureDistribution(mx)
    ELSE IF MultinomialRaises(mx.weights) THEN RaisedWith("RuntimeError")
    ELSE LET d == MixtureDistribution(mx).val
             k == Len(d.means)
             comp(i) == PickComponent(d.weights, Rand(g, i))
             at(i, m) == n + 2 * (k * (i - 1) + (m - 1))
         IN  Returned([i \in 1..n |->
                          Affine(d.means[comp(i)], d.covs[comp(i)],
                                 <<Randn(g, at(i, comp(i)) + 1),
                                   Randn(g, at(i, comp(i)) + 2)>>)])
MixtureSampleDraws(mx, n) ==
    IF MixtureDistributionRaises(mx) \/ MultinomialRaises(mx.weights) THEN 0
    ELSE n + 2 * n * ComponentCount(mx)

\* GaussianMixture.log_density(x): the distribution is built, then log_prob
\* is the log-sum-exp over the components.  The value kept for a point is,
\* per component, the pair it combines: the component's probability and
\* its log-density without normalising constant.
MixtureLogDensity(mx, xq) ==
    IF MixtureDistributionRaises(mx) THEN MixtureDistribution(mx)
    ELSE LET d == MixtureDistribution(mx).val
         IN  Returned([i \in 1..Len(xq) |->
                          [m \in 1..Len(d.means) |->
                              <<IF ProbsAreNan(d.weights) THEN "nan"
                                ELSE NormalizedProbs(d.weights)[m],
                                RMul(Rat(-1, 2),
                                     Mahalanobis(d.means[m], d.covs[m], xq[i]))>>]])

Sample(obj, n, g) ==
    IF obj.cls = "Gaussian" THEN GaussianSample(obj, n, g) ELSE MixtureSample(obj, n, g)
SampleDraws(obj, n) ==
    IF obj.cls = "Gaussian" THEN GaussianSampleDraws(obj, n) ELSE MixtureSampleDraws(obj, n)
LogDensity(obj, xq) ==
    IF obj.cls = "Gaussian" THEN GaussianLogDensity(obj, xq) ELSE MixtureLogDensity(obj, xq)

---------------------------------------------------------------------------
(* Lifecycle of one distribution object: it is constructed, then sampled   *)
(* and evaluated.                                                          *)

Diag(a, b) == <<<<Num(a), Num(0)>>, <<Num(0), Num(b)>>>>
\* positive definite: 10 * I (the notebook's), a correlated one;
\* not positive definite: singular, indefinite, negative, zero
GoodCovs == { Diag(10, 10), <<<<Num(4), Num(2)>>, <<Num(2), Num(2)>>>> }
BadCovs == { Diag(1, 0), <<<<Num(1), Num(2)>>, <<Num(2), Num(1)>>>>,
             Diag(-1, 1), Diag(0, 0) }
DistCovs == GoodCovs \cup BadCovs
DistMeans == { <<Num(0), Num(0)>>, <<Num(1), Num(-2)>> }
MixtureMeans == <<<<Num(-1), Num(0)>>, <<Num(1), Num(0)>>>>
\* one, two and three component means
MixtureMeanLists ==
    { <<<<Num(2), Num(2)>>>>, MixtureMeans,
      <<<<Num(-1), Num(0)>>, <<Num(1), Num(0)>>, <<Num(0), Num(3)>>>> }
\* two components (usable, singular, negative); one and three components
MixtureCovs == { <<Diag(1, 1), Diag(1, 1)>>, <<Diag(1, 1), Diag(1, 0)>>,
                 <<Diag(-1, 1), Diag(4, 4)>>,
                 <<Diag(4, 4)>>, <<Diag(1, 1), Diag(4, 4), Diag(1, 1)>> }
\* two weights: usable, unnormalized, all negative, zero sum, mixed signs, a
\* zero weight; one and three weights
MixtureWeights == { <<Num(1), Num(1)>>, <<Num(1), Num(3)>>, <<Num(-1), Num(-1)>>,
                    <<Num(0), Num(0)>>, <<Num(-1), Num(2)>>, <<Num(1), Num(0)>>,
                    <<Num(1)>>, <<Num(1), Num(1), Num(2)>> }
QueryPoints == { <<<<Num(0), Num(0)>>>>, <<<<Num(1), Num(2)>>, <<Num(0), Num(-4)>>>> }
SampleCounts == {1, 2}

InitDist ==
    /\ RolloutAtRest
    /\ probe = NoProbe
    /\ coef = NoCoef
    /\ dist = [on |-> TRUE, asked |-> FALSE, obj |-> NoObject, ncalls |-> 0,
               call |-> "none", out |-> Returned(<<>>)]
    /\ runs = NoRuns
    /\ plot = NoPlot
    /\ nth = NoNth

\* Gaussian(mean, cov)
ConstructGaussian(mean, cov) ==
    /\ dist.on
    /\ ~dist.asked
    /\ dist' = [dist EXCEPT !.asked = TRUE, !.obj = GaussianInit(mean, cov)]
    /\ UNCHANGED <<rolloutVars, probe, coef, runs, plot, nth>>

\* GaussianMixture(means, covs, weights)
ConstructMixture(means, covs, weights) ==
    /\ dist.on
    /\ ~dist.asked
    /\ dist' = [dist EXCEPT !.asked = TRUE,
                            !.obj = GaussianMixtureInit(means, covs, weights)]
    /\ UNCHANGED <<rolloutVars, probe, coef, runs, plot, nth>>

\* obj.sample(n)
CallSample(n) ==
    /\ dist.on
    /\ dist.obj.cls # "None"
    /\ dist.ncalls < MaxDistCalls
    /\ dist' = [dist EXCEPT !.ncalls = @ + 1, !.call = "sample",
                            !.out = Sample(dist.obj, n, gen)]
    /\ gen' = Advance(gen, SampleDraws(dist.obj, n))
    /\ UNCHANGED <<sim, ts, arg_x, arg_ts, heap, x_init, seeded, target, pc, x,
                   t_idx, xs, calls, simOut, trajOut, probe, coef,
                   runs, plot, nth>>

\* obj.log_density(x)
CallLogDensity(xq) ==
    /\ dist.on
    /\ dist.obj.cls # "None"
    /\ dist.ncalls < MaxDistCalls
    /\ dist' = [dist EXCEPT !.ncalls = @ + 1, !.call = "log_density",
                            !.out = LogDensity(dist.obj, xq)]
    /\ UNCHANGED <<rolloutVars, probe, coef, runs, plot, nth>>

NextDist ==
    \/ \E mean \in DistMeans, cov \in DistCovs : ConstructGaussian(mean, cov)
    \/ \E means \in MixtureMeanLists, covs \in MixtureCovs, w \in MixtureWeights :
          ConstructMixture(means, covs, w)
    \/ \E n \in SampleCounts : CallSample(n)
    \/ \E xq \in QueryPoints : CallLogDensity(xq)

SpecDist == InitDist /\ [][NextDist]_vars

\* a symmetric matrix whose leading principal minors are positive
IsPositiveDefinite(cov) ==
    /\ cov[1][2] = cov[2][1]
    /\ RLess(Num(0), cov[1][1])
    /\ RLess(Num(0), RSub(RMul(cov[1][1], cov[2][2]), RMul(cov[1][2], cov[2][1])))
\* every weight is positive after normalization
ValidWeights(w) ==
    /\ SumTo(w, Len(w)) # Num(0)
    /\ \A m \in 1..Len(w) : RLess(Num(0), RDiv(w[m], SumTo(w, Len(w))))
CovsOf(obj) == IF obj.cls = "Gaussian" THEN <<obj.cov>> ELSE obj.covs
AllPositiveDefinite(obj) ==
    \A m \in 1..Len(CovsOf(obj)) : IsPositiveDefinite(CovsOf(obj)[m])
ValidParameters(obj) ==
    /\ AllPositiveDefinite(obj)
    /\ obj.cls = "GaussianMixture" => ValidWeights(obj.weights)
\* a mixture's means, covariances and weights are equally many
SizesAgree(obj) ==
    obj.cls = "GaussianMixture" =>
        /\ Len(obj.means) = Len(obj.covs)
        /\ Len(obj.weights) = Len(obj.means)

C11_MismatchFailsFast ==
    (dist.on /\ dist.obj.cls = "GaussianMixture") =>
        /\ Len(dist.obj.weights) = Len(dist.obj.means)
        /\ Len(dist.obj.weights) = Len(dist.obj.covs)

\* C11 (amended): constructing a GaussianMixture never fails, whatever the
\* numbers of weights, means and covariances, and nmodes is the number of
\* means.  The mismatch is met only when the object is used: means and
\* covariances of different numbers, neither of them 1, make every sample
\* and log_density call raise RuntimeError; a number of weights that differs
\* from the number of components makes every such call raise (ValueError
\* when the covariances factorize); one mean or one covariance is silently
\* stretched over the components, and log_density then returns.
C11_MismatchDeferredToUse ==
    dist.on =>
        /\ dist.asked => dist.obj.cls # "None"
        /\ dist.obj.cls = "GaussianMixture" =>
              /\ dist.obj.nmodes = Len(dist.obj.means)
              /\ dist.call # "none" =>
                    /\ BroadcastRaises(dist.obj) =>
                          dist.out.raised /\ dist.out.error = "RuntimeError"
                    /\ (~BroadcastRaises(dist.obj)
                           /\ Len(dist.obj.weights) # ComponentCount(dist.obj)) =>
                          /\ dist.out.raised
                          /\ AllPositiveDefinite(dist.obj) =>
                                dist.out.error = "ValueError"
                    /\ (dist.call = "log_density"
                           /\ ~BroadcastRaises(dist.obj)
                           /\ Len(dist.obj.weights) = ComponentCount(dist.obj)
                           /\ AllPositiveDefinite(dist.obj)) =>
                          ~dist.out.raised

\* three weights on two components: the object exists, and sampling from it
\* raises
C11_Witness ==
    /\ dist.on
    /\ dist.obj.cls = "GaussianMixture"
    /\ Len(dist.obj.weights) = 3
    /\ Len(dist.obj.means) = 2
    /\ Len(dist.obj.covs) = 2
    /\ dist.call = "sample"
    /\ dist.out.raised
    /\ dist.out.error = "ValueError"

---------------------------------------------------------------------------
(* Rollouts on vector fields whose coefficients do not have the state's    *)
(* shape: the same rollouts, started on such fields.                       *)

\* tensors of shape (1, 1), (2, 1), (1, 2) and (3, 1)
ShapeTensors ==
    { <<<<Num(1)>>>>, <<<<Num(1)>>, <<Num(-1)>>>>, <<<<Num(1), Num(2)>>>>,
      <<<<Num(1)>>, <<Num(0)>>, <<Num(2)>>>> }
ShapeSimulators ==
    { EulerSimulator(FixedField(d, <<<<Num(0)>>>>)) : d \in ShapeTensors }
    \cup { EulerMaruyamaSimulator(FixedField(d, g)) : d, g \in ShapeTensors }
    \cup { EulerMaruyamaSimulator(OUProcess(Rat(1, 4), Rat(1, 4))) }
ShapeSchedules == { <<0>>, <<0, 1>>, <<0, 1, 3>>, <<1, 0>> }

InitShape ==
    /\ sim \in ShapeSimulators
    /\ ts \in ShapeSchedules
    /\ arg_ts = ts
    /\ arg_x \in ShapeTensors
    /\ heap = <<arg_x>>
    /\ x_init = Len(heap)
    /\ gen = ManualSeed(0)
    /\ seeded = FALSE
    /\ target = NoMixture
    /\ pc = "idle"
    /\ x = x_init
    /\ t_idx = 0
    /\ xs = <<>>
    /\ calls = <<>>
    /\ simOut = NoOut
    /\ trajOut = NoOut
    /\ probe = NoProbe
    /\ coef = NoCoef
    /\ dist = NoDist
    /\ runs = NoRuns
    /\ plot = NoPlot
    /\ nth = NoNth

SpecShape == InitShape /\ [][Next]_vars

SizesFit(m, n) == m = n \/ m = 1 \/ n = 1
ShapesFit(s1, s2) == SizesFit(s1[1], s2[1]) /\ SizesFit(s1[2], s2[2])
Stretched(s1, s2) ==
    <<IF s1[1] = 1 THEN s2[1] ELSE s1[1], IF s1[2] = 1 THEN s2[2] ELSE s1[2]>>
\* the shapes step(c.x, c.t, c.h) works on: the state's, the drift's, the
\* diffusion's
StateShape(c) == Shape(c.x)
DriftShape(c) == Shape(DriftCoefficient(sim.field, c.x, c.t))
DiffusionShape(c) == Shape(DiffusionCoefficient(sim.field, c.x, c.t))
\* the coefficients of the call do not have the state's shape
Mismatched(c) ==
    \/ DriftShape(c) # StateShape(c)
    \/ sim.kind = "EulerMaruyamaSimulator" /\ DiffusionShape(c) # StateShape(c)
\* the shapes of the call can be broadcast together
Fitting(c) ==
    /\ ShapesFit(StateShape(c), DriftShape(c))
    /\ sim.kind = "EulerMaruyamaSimulator" =>
          /\ ShapesFit(DiffusionShape(c), StateShape(c))
          /\ ShapesFit(Stretched(StateShape(c), DriftShape(c)),
                       Stretched(DiffusionShape(c), StateShape(c)))
ResultShape(c) ==
    IF sim.kind = "EulerSimulator" THEN Stretched(StateShape(c), DriftShape(c))
    ELSE Stretched(Stretched(StateShape(c), DriftShape(c)),
                   Stretched(DiffusionShape(c), StateShape(c)))
StepCalls == { c \in UNION { {o.calls[i] : i \in 1..Len(o.calls)} : o \in {simOut, trajOut} } : TRUE }

\* C12 (as stated): a step whose drift or diffusion has a shape different
\* from the state's fails with an error, and step, simulate and
\* simulate_with_trajectory never return a state whose shape differs from
\* the initial state's.
C12_ShapeMismatchFails ==
    /\ \A c \in StepCalls :
          /\ Mismatched(c) => c.out.raised
          /\ ~c.out.raised => Shape(c.out.val) = Shape(arg_x)
    /\ simOut.status = "returned" => Shape(FinalState) = Shape(arg_x)
    /\ trajOut.status = "returned" =>
          \A k \in 1..Len(Trajectory) : Shape(Trajectory[k]) = Shape(arg_x)

\* C12 (amended): a step fails on its shapes exactly when the state, the
\* drift and (for Euler-Maruyama) the diffusion cannot be broadcast
\* together; shapes that can are accepted silently, the step returns a state
\* of the broadcast shape, which may differ from the shape of the state it
\* was given, and simulate returns the last such state.
\* simulate_with_trajectory never returns states of different shapes:
\* every recorded state of a returned trajectory has the initial state's
\* shape, and a rollout whose steps all returned fails at torch.stack exactly
\* when a step changed the shape.
C12_OnlyUnbroadcastableShapesFail ==
    /\ \A c \in StepCalls :
          /\ ~Fitting(c) => c.out.raised
          /\ (~Fitting(c) /\ RLeq(Num(0), c.h)) => c.out.error = "RuntimeError"
          /\ (Fitting(c) /\ RLeq(Num(0), c.h)) => ~c.out.raised
          /\ ~c.out.raised => Shape(c.out.val) = ResultShape(c)
    /\ simOut.status = "returned" =>
          Shape(FinalState) =
              IF simOut.calls = <<>> THEN Shape(arg_x)
              ELSE ResultShape(Last(simOut.calls))
    /\ trajOut.status = "returned" =>
          /\ Len(Trajectory) = Len(trajOut.calls) + 1
          /\ \A k \in 1..Len(Trajectory) : Shape(Trajectory[k]) = Shape(arg_x)
    /\ (trajOut.status = "raised"
          /\ \A i \in 1..Len(trajOut.calls) : ~trajOut.calls[i].out.raised) =>
          \E i \in 1..Len(trajOut.calls) :
              Shape(trajOut.calls[i].out.val) # Shape(arg_x)

\* a drift of shape (2, 1) on a state of shape (1, 1): the step returns,
\* simulate returns a state of shape (2, 1), and simulate_with_trajectory
\* fails when it stacks the recorded states
C12_Witness ==
    /\ sim.kind = "EulerSimulator"
    /\ Shape(arg_x) = <<1, 1>>
    /\ Shape(sim.field.drift) = <<2, 1>>
    /\ ts = <<0, 1>>
    /\ simOut.status = "returned"
    /\ Shape(FinalState) = <<2, 1>>
    /\ trajOut.status = "raised"
    /\ ~trajOut.calls[1].out.raised

---------------------------------------------------------------------------
(* Two runs of one program.  Both make the same calls in the same order;   *)
(* they differ in the state their generators are in at the start, and in   *)
(* draws that other code of one run makes in between.  A process has one   *)
(* generator per device: torch.manual_seed seeds them all, torch.rand      *)
(* without a device draws from the cpu's, and tensors moved .to(device)    *)
(* draw from the device's.                                                 *)

\* device = 'cuda' if torch.cuda.is_available() else 'cpu'
Devices == {"cpu", "cuda"}

\* faulty variant: the generators are left as they are
ReseedSkipped(gs, seed) == gs
\* torch.manual_seed(seed)
Reseed(gs, seed) == [cpu |-> ManualSeed(seed), cuda |-> ManualSeed(seed)]

\* faulty variant: the caller's generators are put back before returning
Random2DRestoring(gs, nmodes, std, scale, seed) ==
    [mixture |-> GaussianMixtureInit(RandomMeans(Reseed(gs, seed).cpu, nmodes, scale),
                                     IsotropicCovs(nmodes, std),
                                     [m \in 1..nmodes |-> Num(1)]),
     gens |-> gs]
\* GaussianMixture.random_2D(nmodes, std, scale, seed), called with the
\* process's generators in state gs: the mixture it returns and the state
\* it leaves the generators in
Random2DCall(gs, nmodes, std, scale, seed) ==
    [mixture |-> GaussianMixtureInit(RandomMeans(Reseed(gs, seed).cpu, nmodes, scale),
                                     IsotropicCovs(nmodes, std),
                                     [m \in 1..nmodes |-> Num(1)]),
     gens |-> [Reseed(gs, seed) EXCEPT !.cpu = Advance(@, 2 * nmodes)]]

\* simulate_with_trajectory(xt, sched) from its i-th iteration on, acc being
\* the states recorded so far: how the call ends and the generator after it
RECURSIVE RolloutFrom(_, _, _, _, _, _)
RolloutFrom(s, xt, sched, i, g, acc) ==
    IF i > Len(sched) - 1
    THEN [out |-> IF \E k \in 1..Len(acc) : Shape(acc[k]) # Shape(acc[1])
                  THEN ShapeError ELSE Returned(acc),
          gen |-> g]
    ELSE LET t == Num(sched[i])
             h == Num(sched[i + 1] - sched[i])
             out == Step(s, xt, t, h, g)
             g1 == Advance(g, StepDraws(s, xt, t, h))
         IN  IF out.raised THEN [out |-> out, gen |-> g1]
             ELSE RolloutFrom(s, out.val, sched, i + 1, g1, Append(acc, out.val))
SimulateWithTrajectory(s, xt, sched, g) == RolloutFrom(s, xt, sched, 1, g, <<xt>>)

\* the notebook's source distribution, Gaussian(zeros(2), 20 * eye(2))
SourceGaussian == GaussianInit(<<Num(0), Num(0)>>, Diag(20, 20))
RunSimulator == EulerMaruyamaSimulator(BrownianMotion(Rat(1, 10)))
RunX0 == <<<<Num(0)>>, <<Num(0)>>>>
RunSchedule == <<0, 1, 3>>
\* the states run 2's generators may be in at the start (run 1's are freshly
\* seeded with 0)
RunStarts ==
    { [cpu |-> Advance(ManualSeed(sd), k), cuda |-> Advance(ManualSeed(sd), k)] :
        sd \in Seeds, k \in {0, 3} }

InitSeed ==
    /\ RolloutAtRest
    /\ probe = NoProbe
    /\ coef = NoCoef
    /\ dist = NoDist
    /\ runs \in { [on |-> TRUE, device |-> d,
                   gens |-> <<Reseed(g2, 0), g2>>,
                   made |-> <<<<>>, <<>>>>,
                   outs |-> <<<<>>, <<>>>>,
                   same |-> FALSE,
                   ncalls |-> 0] : d \in Devices, g2 \in RunStarts }
    /\ plot = NoPlot
    /\ nth = NoNth

\* both runs call GaussianMixture.random_2D with the same seed, run r asking
\* for ns[r] modes
BothRandom2D(ns, seed) ==
    /\ runs.on
    /\ runs.ncalls < MaxRunCalls
    /\ LET c(r) == Random2DCall(runs.gens[r], ns[r], StdArg, ScaleArg, seed)
       IN  runs' = [runs EXCEPT
                      !.gens = [r \in 1..2 |-> c(r).gens],
                      !.made = [r \in 1..2 |->
                                   Append(runs.made[r],
                                          [nmodes |-> ns[r], seed |-> seed,
                                           before |-> runs.gens[r],
                                           mixture |-> c(r).mixture])],
                      !.outs = <<<<>>, <<>>>>,
                      !.same = TRUE,
                      !.ncalls = @ + 1]
    /\ UNCHANGED <<rolloutVars, probe, coef, dist, plot, nth>>

\* both runs call source.sample(n) on the source distribution
BothSampleSource(n) ==
    /\ runs.on
    /\ runs.ncalls < MaxRunCalls
    /\ runs' = [runs EXCEPT
                  !.outs = [r \in 1..2 |->
                               Append(runs.outs[r],
                                      [call |-> "source.sample",
                                       out |-> Sample(SourceGaussian, n,
                                                      runs.gens[r][runs.device])])],
                  !.gens = [r \in 1..2 |->
                               [runs.gens[r] EXCEPT ![runs.device] =
                                   Advance(@, SampleDraws(SourceGaussian, n))]],
                  !.ncalls = @ + 1]
    /\ UNCHANGED <<rolloutVars, probe, coef, dist, plot, nth>>

\* both runs call target.sample(n) on the mixture random_2D returned last
BothSampleTarget(n) ==
    /\ runs.on
    /\ runs.ncalls < MaxRunCalls
    /\ runs.made[1] # <<>>
    /\ LET mx(r) == Last(runs.made[r]).mixture
       IN  runs' = [runs EXCEPT
                      !.outs = [r \in 1..2 |->
                                   Append(runs.outs[r],
                                          [call |-> "target.sample",
                                           out |-> Sample(mx(r), n,
                                                          runs.gens[r][runs.device])])],
                      !.gens = [r \in 1..2 |->
                                   [runs.gens[r] EXCEPT ![runs.device] =
                                       Advance(@, SampleDraws(mx(r), n))]],
                      !.ncalls = @ + 1]
    /\ UNCHANGED <<rolloutVars, probe, coef, dist, plot, nth>>

\* both runs call simulator.simulate_with_trajectory(x0, ts)
BothSimulate ==
    /\ runs.on
    /\ runs.ncalls < MaxRunCalls
    /\ LET c(r) == SimulateWithTrajectory(RunSimulator, RunX0, RunSchedule,
                                          runs.gens[r][runs.device])
       IN  runs' = [runs EXCEPT
                      !.outs = [r \in 1..2 |->
                                   Append(runs.outs[r],
                                          [call |-> "simulate_with_trajectory",
                                           out |-> c(r).out])],
                      !.gens = [r \in 1..2 |->
                                   [runs.gens[r] EXCEPT ![runs.device] = c(r).gen]],
                      !.ncalls = @ + 1]
    /\ UNCHANGED <<rolloutVars, probe, coef, dist, plot, nth>>

\* other code of run 2 draws one number from each generator
OtherDraw ==
    /\ runs.on
    /\ runs.ncalls < MaxRunCalls
    /\ runs' = [runs EXCEPT
                  !.gens[2] = [cpu |-> Advance(@.cpu, 1), cuda |-> Advance(@.cuda, 1)],
                  !.same = FALSE,
                  !.ncalls = @ + 1]
    /\ UNCHANGED <<rolloutVars, probe, coef, dist, plot, nth>>

NextSeed ==
    \/ \E n1, n2 \in ModeCounts, seed \in Seeds : BothRandom2D(<<n1, n2>>, seed)
    \/ \E n \in SampleCounts : BothSampleSource(n)
    \/ \E n \in SampleCounts : BothSampleTarget(n)
    \/ BothSimulate
    \/ OtherDraw

SpecSeed == InitSeed /\ [][NextSeed]_vars

\* the random_2D calls made in either run
Random2DCalls ==
    UNION { {runs.made[r][i] : i \in 1..Len(runs.made[r])} : r \in 1..2 }

\* C13: two random_2D calls with the same nmodes, std, scale and seed return
\* mixtures with the same means, covariances and weights, whatever state the
\* generators were in before each call (whatever was drawn before or
\* between the calls).
C13_Random2DDeterministic ==
    runs.on =>
        \A a, b \in Random2DCalls :
            (a.nmodes = b.nmodes /\ a.seed = b.seed) =>
                /\ a.mixture.means = b.mixture.means
                /\ a.mixture.covs = b.mixture.covs
                /\ a.mixture.weights = b.mixture.weights

\* two calls of one run with the same arguments, made with the generators
\* in different states, and nothing drawn from a fresh generator
C13_Witness ==
    /\ runs.on
    /\ Len(runs.made[2]) = 2
    /\ runs.made[2][1].nmodes = 2
    /\ runs.made[2][2].nmodes = 2
    /\ runs.made[2][1].seed = runs.made[2][2].seed
    /\ runs.made[2][1].before # runs.made[2][2].before
    /\ runs.made[2][1].before.cpu.pos > 0
    /\ runs.made[2][1].mixture = runs.made[2][2].mixture
    /\ runs.made[2][1].mixture.means[1] # runs.made[2][1].mixture.means[2]

\* the two runs called random_2D with the same seed and have made the same
\* calls since
SameSeedSameCalls == runs.on /\ runs.same
\* ... and asked it for the same number of modes
SameArgumentsSameCalls ==
    /\ SameSeedSameCalls
    /\ Last(runs.made[1]).nmodes = Last(runs.made[2]).nmodes
\* the results of the calls that do not read the mixture random_2D returned
SourceOuts(r) ==
    [k \in {i \in 1..Len(runs.outs[r]) : runs.outs[r][i].call # "target.sample"} |->
        runs.outs[r][k]]

\* C16 (as stated): random_2D resets the generator to its seed, so two runs
\* that call random_2D with the same seed and then make the same sampling
\* and simulation calls get the same samples and trajectories, and the
\* noise that follows is the same in both.
C16_SeedDeterminesNoise ==
    SameSeedSameCalls =>
        /\ SourceOuts(1) = SourceOuts(2)
        /\ runs.gens[1][runs.device] = runs.gens[2][runs.device]

\* C16 (amended): random_2D seeds every generator of the process with its
\* seed and then draws its 2 * nmodes means from the cpu generator, which
\* the caller finds advanced by that many draws.  Two runs that call
\* random_2D with the same seed and the same nmodes and then make the same
\* sampling and simulation calls get the same mixture, samples and
\* trajectories, and leave the generators in the same state.  With
\* different nmodes this holds only on a device other than the cpu, and
\* there only until the mixture is sampled.
C16_SeedAndModesDetermineNoise ==
    /\ SameSeedSameCalls =>
          \A r \in 1..2 :
              runs.outs[r] = <<>> =>
                  /\ runs.gens[r].cuda = ManualSeed(Last(runs.made[r]).seed)
                  /\ runs.gens[r].cpu =
                         Advance(ManualSeed(Last(runs.made[r]).seed),
                                 2 * Last(runs.made[r]).nmodes)
    /\ SameArgumentsSameCalls =>
          /\ Last(runs.made[1]).mixture = Last(runs.made[2]).mixture
          /\ runs.outs[1] = runs.outs[2]
          /\ runs.gens[1] = runs.gens[2]
    /\ (SameSeedSameCalls /\ runs.device = "cuda"
          /\ \A k \in 1..Len(runs.outs[1]) : runs.outs[1][k].call # "target.sample") =>
          /\ runs.outs[1] = runs.outs[2]
          /\ runs.gens[1].cuda = runs.gens[2].cuda

\* two runs on the cpu whose generators differed before random_2D: a sample
\* and a trajectory made after it are the same in both
C16_Witness ==
    /\ SameArgumentsSameCalls
    /\ runs.device = "cpu"
    /\ Last(runs.made[1]).before # Last(runs.made[2]).before
    /\ Len(runs.outs[1]) = 2
    /\ runs.outs[1][1].call = "source.sample"
    /\ runs.outs[1][2].call = "simulate_with_trajectory"
    /\ ~runs.outs[1][2].out.raised
    /\ runs.outs[1] = runs.outs[2]

---------------------------------------------------------------------------
(* every_nth_index: the indices of a trajectory that graph_dynamics plots. *)

\* torch.arange(start, end, step) for integers and step >= 1: start,
\* start + step, ... below end
Arange(start, end, step) ==
    IF end <= start THEN <<>>
    ELSE [k \in 1..((end - start + step - 1) \div step) |-> start + (k - 1) * step]

\* every_nth_index with the last index appended to a range that may already
\* hold it
EveryNthIndexOverlap(num_timesteps, n) ==
    Arange(0, num_timesteps, n) \o <<num_timesteps - 1>>

EveryNthIndex(num_timesteps, n) ==
    IF n = 1 THEN Arange(0, num_timesteps, 1)
    ELSE Arange(0, num_timesteps - 1, n) \o <<num_timesteps - 1>>

\* timesteps[indices_to_plot]: every index has to be a position of the
\* schedule
IndexRaises(len, indices) ==
    \E k \in 1..Len(indices) : indices[k] < 0 \/ indices[k] >= len

InitNth ==
    /\ RolloutAtRest
    /\ gen = ManualSeed(0)
    /\ probe = NoProbe
    /\ coef = NoCoef
    /\ dist = NoDist
    /\ runs = NoRuns
    /\ plot = NoPlot
    /\ \E num \in 1..MaxTimesteps, n \in 1..MaxEvery :
          nth = [on |-> TRUE, num_timesteps |-> num, n |-> n, done |-> FALSE,
                 indices |-> <<>>, raised |-> FALSE]

\* indices_to_plot = every_nth_index(len(timesteps), plot_every) and the
\* indexing of timesteps and xts with it
CallEveryNthIndex ==
    /\ nth.on
    /\ ~nth.done
    /\ LET indices == EveryNthIndex(nth.num_timesteps, nth.n)
       IN  nth' = [nth EXCEPT !.done = TRUE,
                              !.indices = indices,
                              !.raised = IndexRaises(nth.num_timesteps, indices)]
    /\ UNCHANGED <<rolloutVars, probe, coef, dist, runs, plot>>

NextNth == CallEveryNthIndex

SpecNth == InitNth /\ [][NextNth]_vars

\* C18: for num_timesteps >= 1 and n >= 1 every_nth_index returns strictly
\* increasing indices (so none twice), all in 0..num_timesteps-1, the first
\* 0 and the last num_timesteps-1, consecutive ones at most n apart.
C18_EveryNthIndexCoversEnds ==
    (nth.on /\ nth.done) =>
        LET idx == nth.indices
        IN  /\ Len(idx) >= 1
            /\ idx[1] = 0
            /\ idx[Len(idx)] = nth.num_timesteps - 1
            /\ \A k \in 1..Len(idx) : idx[k] \in 0..(nth.num_timesteps - 1)
            /\ \A k \in 1..(Len(idx) - 1) :
                  /\ idx[k] < idx[k + 1]
                  /\ idx[k + 1] - idx[k] <= nth.n
            /\ ~nth.raised

\* every_nth_index(7, 3): the range stops at 3 and ends on 6, which the
\* range itself would have produced had it run to num_timesteps
C18_Witness ==
    /\ nth.on
    /\ nth.done
    /\ nth.num_timesteps = 7
    /\ nth.n = 3
    /\ nth.indices = <<0, 3, 6>>

---------------------------------------------------------------------------
(* plot_trajectories_1d and plot_scaled_trajectories_1d.  Both take the    *)
(* schedule as their parameter `timesteps`, simulate along it, and then    *)
(* hand `ts` to ax.plot: a name the functions do not bind, which Python    *)
(* looks up in the module's globals when the line runs.  The notebook's    *)
(* cells assign that global before they call the functions.                *)

\* the module-level name ts before any cell has assigned it
Unbound == [bound |-> FALSE, val |-> <<>>]
Bound(sched) == [bound |-> TRUE, val |-> sched]

\* the schedules the cells build and the functions are called with
PlotSchedules == {<<0>>, <<0, 1>>, <<0, 3>>, <<0, 1, 3>>, <<1, 0>>}
\* EulerMaruyamaSimulator(sde=brownian_motion), EulerMaruyamaSimulator(sde=ou_process)
PlotSimulators ==
    {EulerMaruyamaSimulator(BrownianMotion(Rat(1, 10))),
     EulerMaruyamaSimulator(OUProcess(Rat(1, 2), Num(1)))}
\* torch.zeros(n, 1), torch.linspace(-20.0, 20.0, n).view(-1, 1)
PlotX0s == {<<<<Num(0)>>, <<Num(0)>>>>, <<<<Num(-20)>>, <<Num(20)>>>>}
\* time_scale = sigma ** 2
TimeScales == {Num(1), Num(4)}

\* ts.cpu() * time_scale
ScaledTimeAxis(sched, time_scale) ==
    [k \in 1..Len(sched) |-> RMul(Num(sched[k]), time_scale)]

\* trajectories[trajectory_idx, :, 0] of torch.stack(xs, dim=1)
TrajectoryOf(trajectories, trajectory_idx) ==
    [k \in 1..Len(trajectories) |-> trajectories[k][trajectory_idx][1]]

\* the loop over the trajectories: each ax.plot(<time axis>, trajectory)
\* reads the global ts (NameError while it is unbound) and needs as many
\* times as the trajectory has states (matplotlib's ValueError otherwise);
\* the first call that raises ends the loop.  time_scale is 1 for
\* plot_trajectories_1d, which plots ts.cpu() itself.
PlotLoop(trajectories, timesteps, global, time_scale) ==
    IF Shape(trajectories[1])[1] = 0 THEN Returned(<<>>)
    ELSE IF Shape(trajectories[1])[2] = 0 THEN RaisedWith("IndexError")
    ELSE IF ~global.bound THEN RaisedWith("NameError")
    ELSE IF Len(global.val) # Len(trajectories) THEN Raised
    ELSE Returned([i \in 1..Shape(trajectories[1])[1] |->
                      [x |-> ScaledTimeAxis(global.val, time_scale),
                       y |-> TrajectoryOf(trajectories, i)]])

InitPlot ==
    /\ RolloutAtRest
    /\ gen = ManualSeed(0)
    /\ probe = NoProbe
    /\ coef = NoCoef
    /\ dist = NoDist
    /\ runs = NoRuns
    /\ plot = [on |-> TRUE, ts |-> Unbound, gen |-> ManualSeed(0), ncalls |-> 0,
               called |-> FALSE, fn |-> "", x0 |-> <<>>, timesteps |-> <<>>,
               time_scale |-> Num(1), found |-> Unbound,
               trajectories |-> Returned(<<>>), lines |-> Returned(<<>>)]
    /\ nth = NoNth

\* a cell's  ts = torch.linspace(...)
AssignTs(sched) ==
    /\ plot.on
    /\ plot.ts # Bound(sched)
    /\ plot' = [plot EXCEPT !.ts = Bound(sched)]
    /\ UNCHANGED <<rolloutVars, probe, coef, dist, runs, nth>>

\* what a call of either function leaves behind: its arguments, the global
\* it found, the simulation's outcome and the lines it drew
PlotCall(fn, x0, simulator, timesteps, time_scale) ==
    LET r == SimulateWithTrajectory(simulator, x0, timesteps, plot.gen)
        lines == IF r.out.raised THEN r.out
                 ELSE PlotLoop(r.out.val, timesteps, plot.ts, time_scale)
    IN  [plot EXCEPT !.gen = r.gen,
                     !.ncalls = @ + 1,
                     !.called = TRUE,
                     !.fn = fn,
                     !.x0 = x0,
                     !.timesteps = timesteps,
                     !.time_scale = time_scale,
                     !.found = plot.ts,
                     !.trajectories = r.out,
                     !.lines = lines]

PlotTrajectories1d(x0, simulator, timesteps) ==
    /\ plot.on
    /\ plot.ncalls < MaxRunCalls
    /\ plot' = PlotCall("plot_trajectories_1d", x0, simulator, timesteps, Num(1))
    /\ UNCHANGED <<rolloutVars, probe, coef, dist, runs, nth>>

PlotScaledTrajectories1d(x0, simulator, timesteps, time_scale) ==
    /\ plot.on
    /\ plot.ncalls < MaxRunCalls
    /\ plot' = PlotCall("plot_scaled_trajectories_1d", x0, simulator, timesteps,
                        time_scale)
    /\ UNCHANGED <<rolloutVars, probe, coef, dist, runs, nth>>

NextPlot ==
    \/ \E sched \in PlotSchedules : AssignTs(sched)
    \/ \E x0 \in PlotX0s, s \in PlotSimulators, sched \in PlotSchedules :
          PlotTrajectories1d(x0, s, sched)
    \/ \E x0 \in PlotX0s, s \in PlotSimulators, sched \in PlotSchedules,
          sc \in TimeScales :
          PlotScaledTrajectories1d(x0, s, sched, sc)

SpecPlot == InitPlot /\ [][NextPlot]_vars

\* C17 (as stated): a call of plot_trajectories_1d or
\* plot_scaled_trajectories_1d whose simulation returned plots every
\* trajectory against the timesteps argument of the call (times time_scale
\* for the scaled function), one time per state of the trajectory, whatever
\* value the module-level ts has been assigned.
C17_TimeAxisIsTimestepsArgument ==
    (plot.on /\ plot.called /\ ~plot.trajectories.raised /\ plot.found.bound) =>
        /\ ~plot.lines.raised
        /\ Len(plot.lines.val) = Len(plot.x0)
        /\ \A i \in 1..Len(plot.lines.val) :
              /\ plot.lines.val[i].x =
                     ScaledTimeAxis(plot.timesteps, plot.time_scale)
              /\ Len(plot.lines.val[i].x) = Len(plot.lines.val[i].y)

====
